---- MODULE Spec2Model ----
(***************************************************************************)
(* Model of the full-query-cache plugin of apollo-server                   *)
(* (packages/apollo-server-plugin-full-query-cache/src/                    *)
(*  ApolloServerPluginFullQueryCache.ts).                                  *)
(*                                                                         *)
(* One plugin instance (one `options` object) serves several requests.     *)
(* Every request gets its own listener from requestDidStart, whose closure *)
(* holds invokedHooks, sessionId and extraCacheKeyData.  The listener's    *)
(* execute is an async function: it suspends at each `await` (the two      *)
(* hooks, each cache.get), and other requests run while it is suspended.   *)
(*                                                                         *)
(* A JavaScript value is represented by its JSON text, as a sequence of    *)
(* tokens; `undefined`, which JSON.stringify leaves out, is the empty      *)
(* sequence.                                                               *)
(***************************************************************************)
EXTENDS Naturals, Sequences, FiniteSets

(***************************************************************************)
(* Bounds of the model.                                                    *)
(***************************************************************************)
MaxEntries == 2

Requests == {"r1", "r2"}

Documents == {"{ a }"}

SessionIdStrings == {"u1", ""}

ExtraStrings == {"en"}

(***************************************************************************)
(* JavaScript values as JSON token sequences.                              *)
(***************************************************************************)
JsUndefined == << >>

JsNull == <<"null">>

JsString(s) == <<"\"", s, "\"">>

JsNumber(n) == <<CASE n = 0 -> "0" [] n = 1 -> "1" [] n = 2 -> "2" [] OTHER -> "NaN">>

\* An object is a sequence of fields in insertion order.
Field(name, value) == [name |-> name, value |-> value]

FieldNames(obj) == {obj[i].name : i \in 1..Len(obj)}

HasField(obj, name) == name \in FieldNames(obj)

GetField(obj, name) ==
    IF HasField(obj, name)
    THEN obj[CHOOSE i \in 1..Len(obj) : obj[i].name = name].value
    ELSE JsUndefined

\* { ...obj, name: value }: an existing property keeps its position and takes
\* the new value, a new property is appended.
Spread(obj, name, value) ==
    IF HasField(obj, name)
    THEN [i \in 1..Len(obj) |->
            IF obj[i].name = name THEN Field(name, value) ELSE obj[i]]
    ELSE Append(obj, Field(name, value))

RECURSIVE StringifyFields(_, _)
StringifyFields(obj, first) ==
    IF obj = << >> THEN << >>
    ELSE IF Head(obj).value = JsUndefined
         THEN StringifyFields(Tail(obj), first)
         ELSE (IF first THEN << >> ELSE <<",">>)
              \o JsString(Head(obj).name) \o <<":">> \o Head(obj).value
              \o StringifyFields(Tail(obj), FALSE)

\* JSON.stringify of an object: properties in insertion order, properties whose
\* value is undefined left out.
JSONstringify(obj) == <<"{">> \o StringifyFields(obj, TRUE) \o <<"}">>

(***************************************************************************)
(* Cache keys.                                                             *)
(***************************************************************************)
NoSession == 0

Private == 1

AuthenticatedPublic == 2

SessionMode == {NoSession, Private, AuthenticatedPublic}

\* sha256 in hex.  The digest is modelled as an injective tagging of its
\* input: two digests are equal exactly when the hashed texts are.
sha(s) == <<"sha256">> \o s

\* The session mode left out of the hashed structure.
cacheKey_WithoutSessionMode(baseCacheKey, sessionMode) ==
    sha(JSONstringify(baseCacheKey))

cacheKey(baseCacheKey, sessionMode) ==
    sha(JSONstringify(Spread(baseCacheKey, "sessionMode", JsNumber(sessionMode))))

\* PrefixingKeyValueCache: the key handed to the wrapped store.
PrefixedKey(key) == <<"fqc:">> \o key

(***************************************************************************)
(* Responses and stored values.                                            *)
(***************************************************************************)
\* A cached entry is the JSON text of a response that carries data.
Response(d) == <<Field("data", JsString(d))>>

RECURSIVE ParseFields(_)
ParseFields(text) ==
    IF Len(text) < 7 THEN << >>
    ELSE LET rest == IF text[1] = "," THEN Tail(text) ELSE text
         IN  <<Field(rest[2], SubSeq(rest, 5, 7))>>
             \o ParseFields(SubSeq(rest, 8, Len(rest)))

\* JSON.parse of the text of an object whose property values are strings.
JSONparse(text) == ParseFields(SubSeq(text, 2, Len(text) - 1))

(***************************************************************************)
(* Inputs of a request.                                                    *)
(***************************************************************************)
OperationNames == {JsNull}

VariableObjects == {<< >>}

RequestContexts ==
    [document : Documents, operationName : OperationNames,
     variables : VariableObjects]

SessionIdResults == {JsNull} \cup {JsString(s) : s \in SessionIdStrings}

ExtraResults == {JsNull} \cup {JsString(s) : s \in ExtraStrings}

\* What willSendResponse looks at in requestContext.response.
FinalResponses == [errors : BOOLEAN, data : BOOLEAN]

\* The base cache key built without the operation name.
MakeBaseCacheKey_WithoutOperationName(ctx, extra) ==
    << Field("document", JsString(ctx.document)),
       Field("variables", JSONstringify(ctx.variables)),
       Field("extra", extra) >>

\* execute, lines 134-142.
MakeBaseCacheKey(ctx, extra) ==
    << Field("document", JsString(ctx.document)),
       Field("operationName", ctx.operationName),
       Field("variables", JSONstringify(ctx.variables)),
       Field("extra", extra) >>

\* The structures execute hands to cacheKey for one base cache key.
KeyStructures(base) ==
    {<<base, NoSession>>, <<base, AuthenticatedPublic>>}
    \cup {<<Spread(base, "sessionId", s), Private>> : s \in SessionIdResults \ {JsNull}}

\* The entries the store may hold when the model starts: responses to the
\* modelled requests, cached without extra cache key data, each partition
\* with data of its own.
SeededExtraResults == {JsNull}

SeedStructures ==
    UNION {KeyStructures(MakeBaseCacheKey(ctx, extra)) :
             ctx \in RequestContexts, extra \in SeededExtraResults}

SeedKey(ks) == PrefixedKey(cacheKey(ks[1], ks[2]))

SeedData(ks) ==
    CASE ks[2] = NoSession -> "anonymous"
      [] ks[2] = AuthenticatedPublic -> "public"
      [] OTHER -> IF GetField(ks[1], "sessionId") = JsString("u1")
                  THEN "private of u1" ELSE "private of another"

SeedStore(K) ==
    [k \in {SeedKey(ks) : ks \in K} |->
        JSONstringify(Response(SeedData(CHOOSE ks \in K : SeedKey(ks) = k)))]

RECURSIVE SubsetsUpTo(_, _)
SubsetsUpTo(S, n) ==
    IF n = 0 THEN {{}}
    ELSE LET P == SubsetsUpTo(S, n - 1)
         IN  P \cup {p \cup {x} : p \in P, x \in S}

(***************************************************************************)
(* State.                                                                  *)
(***************************************************************************)
VARIABLES
    options,            \* which hooks the plugin was constructed with
    store,              \* the wrapped KeyValueCache: key -> stored text
    pc,                 \* where each request's listener is
    requestContext,     \* the request's document, operationName, variables
    invokedHooks,       \* per listener closure, line 102
    sessionId,          \* per listener closure, line 103
    extraCacheKeyData,  \* per listener closure, line 104
    result,             \* what execute resolved to
    response,           \* the response willSendResponse was called with
    trace,              \* per request: the calls made and how they ended
    storeOps            \* per request: the calls that reached the store

vars == <<options, store, pc, requestContext, invokedHooks, sessionId,
          extraCacheKeyData, result, response, trace, storeOps>>

\* Promise<GraphQLResponse | null>, once resolved.
Miss == [isNull |-> TRUE, response |-> << >>]

Hit(resp) == [isNull |-> FALSE, response |-> resp]

NoResponse == [errors |-> FALSE, data |-> FALSE]

AwaitOf(sessionMode) ==
    CASE sessionMode = NoSession -> "awaitNoSession"
      [] sessionMode = Private -> "awaitPrivate"
      [] OTHER -> "awaitAuthenticatedPublic"

\* The wrapped store called directly, without the prefixing cache.
StoreOp_Unprefixed(op, base, sessionMode) ==
    [op |-> op, baseCacheKey |-> base, sessionMode |-> sessionMode,
     key |-> cacheKey(base, sessionMode)]

StoreOp(op, base, sessionMode) ==
    [op |-> op, baseCacheKey |-> base, sessionMode |-> sessionMode,
     key |-> PrefixedKey(cacheKey(base, sessionMode))]

Last(seq) == seq[Len(seq)]

Init ==
    /\ options \in [sessionId : BOOLEAN, extraCacheKeyData : BOOLEAN]
    /\ \E K \in SubsetsUpTo(SeedStructures, MaxEntries) : store = SeedStore(K)
    /\ pc = [r \in Requests |-> "idle"]
    /\ requestContext = [r \in Requests |-> CHOOSE c \in RequestContexts : TRUE]
    /\ invokedHooks = [r \in Requests |-> FALSE]
    /\ sessionId = [r \in Requests |-> JsNull]
    /\ extraCacheKeyData = [r \in Requests |-> JsNull]
    /\ result = [r \in Requests |-> Miss]
    /\ response = [r \in Requests |-> NoResponse]
    /\ trace = [r \in Requests |-> << >>]
    /\ storeOps = [r \in Requests |-> << >>]

(***************************************************************************)
(* requestDidStart: a new listener with its own closure variables.         *)
(***************************************************************************)
requestDidStart(r) ==
    /\ pc[r] = "idle"
    /\ \E ctx \in RequestContexts :
         requestContext' = [requestContext EXCEPT ![r] = ctx]
    /\ pc' = [pc EXCEPT ![r] = "started"]
    /\ invokedHooks' = [invokedHooks EXCEPT ![r] = FALSE]
    /\ sessionId' = [sessionId EXCEPT ![r] = JsNull]
    /\ extraCacheKeyData' = [extraCacheKeyData EXCEPT ![r] = JsNull]
    /\ UNCHANGED <<options, store, result, response, trace, storeOps>>

(***************************************************************************)
(* execute, cut at its awaits.                                             *)
(***************************************************************************)
\* cacheGet up to its await of cache.get (lines 110-111).
cacheGetCall(r, base, sessionMode, tr) ==
    /\ storeOps' = [storeOps EXCEPT ![r] = Append(@, StoreOp("get", base, sessionMode))]
    /\ trace' = [trace EXCEPT ![r] = Append(tr, "get:call")]
    /\ pc' = [pc EXCEPT ![r] = AwaitOf(sessionMode)]

\* The flag kept outside the listener's closure, one for all requests.
SetInvokedHooks_Shared(r) == [q \in Requests |-> TRUE]

\* Line 132.
SetInvokedHooks(r) == [invokedHooks EXCEPT ![r] = TRUE]

\* The Private read made with the base cache key as it is.
FirstLookup_NoSessionIdEmbedded(baseCacheKey, sid) ==
    IF sid = JsNull
    THEN <<baseCacheKey, NoSession>>
    ELSE <<baseCacheKey, Private>>

\* The first read made under the Private mode whatever the sessionId.
FirstLookup_AlwaysPrivate(baseCacheKey, sid) ==
    <<Spread(baseCacheKey, "sessionId", sid), Private>>

\* Lines 144-150: the structure and the mode of the first read.
FirstLookup(baseCacheKey, sid) ==
    IF sid = JsNull
    THEN <<baseCacheKey, NoSession>>
    ELSE <<Spread(baseCacheKey, "sessionId", sid), Private>>

\* The private response is never taken.
PrivateHit_Never(got) == FALSE

\* Line 151: privateResponse !== null.
PrivateHit(got) == ~got.isNull

\* The second read made under the NoSession mode.
FallbackLookup_NoSession(baseCacheKey) == <<baseCacheKey, NoSession>>

\* Line 154: the structure and the mode of the second read.
FallbackLookup(baseCacheKey) == <<baseCacheKey, AuthenticatedPublic>>

\* Lines 132-155 up to the first cache.get, with the hooks' results in hand.
LookupStage(r, sid, extra, tr) ==
    LET first == FirstLookup(MakeBaseCacheKey(requestContext[r], extra), sid)
    IN  /\ extraCacheKeyData' = [extraCacheKeyData EXCEPT ![r] = extra]
        /\ invokedHooks' = SetInvokedHooks(r)
        /\ cacheGetCall(r, first[1], first[2], tr)

\* Lines 129-131 and on, with sessionId settled.
ExtraStage(r, sid, tr) ==
    /\ sessionId' = [sessionId EXCEPT ![r] = sid]
    /\ IF options.extraCacheKeyData
       THEN /\ pc' = [pc EXCEPT ![r] = "awaitExtraCacheKeyData"]
            /\ trace' = [trace EXCEPT ![r] = Append(tr, "extraCacheKeyData:call")]
            /\ UNCHANGED <<invokedHooks, extraCacheKeyData, storeOps>>
       ELSE LookupStage(r, sid, extraCacheKeyData[r], tr)

\* The sessionId hook called and not awaited.
executeCall_NoAwait(r) ==
    /\ pc[r] = "started"
    /\ ExtraStage(r, sessionId[r],
                  IF options.sessionId
                  THEN Append(trace[r], "sessionId:call")
                  ELSE trace[r])
    /\ UNCHANGED <<options, store, requestContext, result, response>>

\* execute is called: it runs to its first await.
executeCall(r) ==
    /\ pc[r] = "started"
    /\ IF options.sessionId
       THEN /\ pc' = [pc EXCEPT ![r] = "awaitSessionId"]
            /\ trace' = [trace EXCEPT ![r] = Append(@, "sessionId:call")]
            /\ UNCHANGED <<invokedHooks, sessionId, extraCacheKeyData, storeOps>>
       ELSE ExtraStage(r, sessionId[r], trace[r])
    /\ UNCHANGED <<options, store, requestContext, result, response>>

\* The sessionId hook resolves (line 127).
sessionIdReturn(r) ==
    /\ pc[r] = "awaitSessionId"
    /\ \E sid \in SessionIdResults :
         ExtraStage(r, sid, Append(trace[r], "sessionId:return"))
    /\ UNCHANGED <<options, store, requestContext, result, response>>

\* The failure of the sessionId hook swallowed: execute goes on without a
\* session.
sessionIdThrow_Swallowed(r) ==
    /\ pc[r] = "awaitSessionId"
    /\ ExtraStage(r, JsNull, Append(trace[r], "sessionId:throw"))
    /\ UNCHANGED <<options, store, requestContext, result, response>>

\* The sessionId hook throws or rejects: execute rejects.
sessionIdThrow(r) ==
    /\ pc[r] = "awaitSessionId"
    /\ pc' = [pc EXCEPT ![r] = "executeRejected"]
    /\ trace' = [trace EXCEPT ![r] = Append(@, "sessionId:throw")]
    /\ UNCHANGED <<options, store, requestContext, invokedHooks, sessionId,
                   extraCacheKeyData, result, response, storeOps>>

\* The extraCacheKeyData hook resolves to one of `results` (line 130).
extraCacheKeyDataResolve(r, results) ==
    /\ pc[r] = "awaitExtraCacheKeyData"
    /\ \E extra \in results :
         LookupStage(r, sessionId[r], extra,
                     Append(trace[r], "extraCacheKeyData:return"))
    /\ UNCHANGED <<options, store, requestContext, sessionId, result, response>>

\* The extraCacheKeyData hook resolves (line 130).
extraCacheKeyDataReturn(r) == extraCacheKeyDataResolve(r, ExtraResults)

\* The flag set although the extraCacheKeyData hook failed.
extraCacheKeyDataThrow_FlagSet(r) ==
    /\ pc[r] = "awaitExtraCacheKeyData"
    /\ pc' = [pc EXCEPT ![r] = "executeRejected"]
    /\ trace' = [trace EXCEPT ![r] = Append(@, "extraCacheKeyData:throw")]
    /\ invokedHooks' = SetInvokedHooks(r)
    /\ UNCHANGED <<options, store, requestContext, sessionId,
                   extraCacheKeyData, result, response, storeOps>>

\* The extraCacheKeyData hook throws or rejects: execute rejects.
extraCacheKeyDataThrow(r) ==
    /\ pc[r] = "awaitExtraCacheKeyData"
    /\ pc' = [pc EXCEPT ![r] = "executeRejected"]
    /\ trace' = [trace EXCEPT ![r] = Append(@, "extraCacheKeyData:throw")]
    /\ UNCHANGED <<options, store, requestContext, invokedHooks, sessionId,
                   extraCacheKeyData, result, response, storeOps>>

\* cacheGet from the return of cache.get (lines 112-115).
cacheGet(r) ==
    LET key == Last(storeOps[r]).key
        value == IF key \in DOMAIN store THEN store[key] ELSE JsUndefined
    IN  IF value = JsUndefined THEN Miss ELSE Hit(JSONparse(value))

executeReturn(r, res, tr) ==
    /\ result' = [result EXCEPT ![r] = res]
    /\ pc' = [pc EXCEPT ![r] = "executed"]
    /\ trace' = [trace EXCEPT ![r] = Append(tr, "execute:return")]
    /\ UNCHANGED storeOps

\* The entry read taken out of the store by the read.
cacheGetReturn_Evicts(r) ==
    /\ pc[r] \in {"awaitNoSession", "awaitPrivate", "awaitAuthenticatedPublic"}
    /\ executeReturn(r, cacheGet(r), Append(trace[r], "get:return"))
    /\ store' = [k \in DOMAIN store \ {Last(storeOps[r]).key} |-> store[k]]
    /\ UNCHANGED <<options, requestContext, invokedHooks, sessionId,
                   extraCacheKeyData, response>>

\* cache.get resolves: the rest of execute up to its next await or its return
\* (lines 144-155).
cacheGetReturn(r) ==
    /\ pc[r] \in {"awaitNoSession", "awaitPrivate", "awaitAuthenticatedPublic"}
    /\ LET tr == Append(trace[r], "get:return")
           got == cacheGet(r)
           second == FallbackLookup(MakeBaseCacheKey(requestContext[r],
                                                     extraCacheKeyData[r]))
       IN  IF pc[r] = "awaitPrivate" /\ ~PrivateHit(got)
           THEN /\ cacheGetCall(r, second[1], second[2], tr)
                /\ UNCHANGED result
           ELSE executeReturn(r, got, tr)
    /\ UNCHANGED <<options, store, requestContext, invokedHooks, sessionId,
                   extraCacheKeyData, response>>

\* The failure of cache.get caught and taken for a miss.
cacheGetThrow_TakenForMiss(r) ==
    /\ pc[r] \in {"awaitNoSession", "awaitPrivate", "awaitAuthenticatedPublic"}
    /\ executeReturn(r, Miss, Append(trace[r], "get:throw"))
    /\ UNCHANGED <<options, store, requestContext, invokedHooks, sessionId,
                   extraCacheKeyData, response>>

\* cache.get rejects (the store is unavailable): cacheGet and execute reject.
cacheGetThrow(r) ==
    /\ pc[r] \in {"awaitNoSession", "awaitPrivate", "awaitAuthenticatedPublic"}
    /\ pc' = [pc EXCEPT ![r] = "executeRejected"]
    /\ trace' = [trace EXCEPT ![r] = Append(@, "get:throw")]
    /\ UNCHANGED <<options, store, requestContext, invokedHooks, sessionId,
                   extraCacheKeyData, result, response, storeOps>>

(***************************************************************************)
(* willSendResponse.                                                       *)
(***************************************************************************)
\* The early return left out.
NeverCached_Never(resp) == FALSE

\* Line 162: this plugin never caches errors.
NeverCached(resp) == resp.errors \/ ~resp.data

\* The double-check left out.
ConsistencyViolated_Never(r) == FALSE

\* Line 171: the double-check that execute ran its hooks.
ConsistencyViolated(r) == ~invokedHooks[r]

\* A response with data and no errors written under the Private key with
\* whatever sessionId the request has.
willSendResponse_CachesPrivate(r) ==
    /\ pc[r] \in {"started", "executed", "executeRejected"}
    /\ \E resp \in FinalResponses :
         /\ response' = [response EXCEPT ![r] = resp]
         /\ LET op == StoreOp("set",
                              Spread(MakeBaseCacheKey(requestContext[r],
                                                      extraCacheKeyData[r]),
                                     "sessionId", sessionId[r]),
                              Private)
            IN  IF NeverCached(resp) \/ ConsistencyViolated(r)
                THEN UNCHANGED <<store, storeOps>>
                ELSE /\ storeOps' = [storeOps EXCEPT ![r] = Append(@, op)]
                     /\ store' = [k \in DOMAIN store \cup {op.key} |->
                                    IF k = op.key
                                    THEN JSONstringify(Response("fresh"))
                                    ELSE store[k]]
    /\ pc' = [pc EXCEPT ![r] = "sent"]
    /\ trace' = [trace EXCEPT ![r] = Append(@, "willSendResponse:return")]
    /\ UNCHANGED <<options, requestContext, invokedHooks, sessionId,
                   extraCacheKeyData, result>>

\* The sessionId hook called again to decide the write.
willSendResponse_CallsHookAgain(r) ==
    /\ pc[r] \in {"started", "executed", "executeRejected"}
    /\ \E resp \in FinalResponses :
         response' = [response EXCEPT ![r] = resp]
    /\ pc' = [pc EXCEPT ![r] = "sent"]
    /\ trace' = [trace EXCEPT ![r] =
                   (IF options.sessionId
                    THEN Append(@, "sessionId:call") ELSE @)
                   \o <<"willSendResponse:return">>]
    /\ UNCHANGED <<options, store, requestContext, invokedHooks, sessionId,
                   extraCacheKeyData, result, storeOps>>

\* Every response written to the store under the NoSession key.
willSendResponse_CachesAll(r) ==
    /\ pc[r] \in {"started", "executed", "executeRejected"}
    /\ \E resp \in FinalResponses :
         response' = [response EXCEPT ![r] = resp]
    /\ pc' = [pc EXCEPT ![r] = "sent"]
    /\ trace' = [trace EXCEPT ![r] = Append(@, "willSendResponse:return")]
    /\ LET op == StoreOp("set", MakeBaseCacheKey(requestContext[r],
                                                 extraCacheKeyData[r]), NoSession)
       IN  /\ storeOps' = [storeOps EXCEPT ![r] = Append(@, op)]
           /\ store' = [k \in DOMAIN store \cup {op.key} |->
                          IF k = op.key
                          THEN JSONstringify(Response("fresh"))
                          ELSE store[k]]
    /\ UNCHANGED <<options, requestContext, invokedHooks, sessionId,
                   extraCacheKeyData, result>>

\* Called with the final response: after execute settled, or without execute
\* ever having been called.
willSendResponse(r) ==
    /\ pc[r] \in {"started", "executed", "executeRejected"}
    /\ \E resp \in FinalResponses :
         /\ response' = [response EXCEPT ![r] = resp]
         /\ IF NeverCached(resp)
            THEN /\ pc' = [pc EXCEPT ![r] = "sent"]
                 /\ trace' = [trace EXCEPT ![r] = Append(@, "willSendResponse:return")]
            ELSE IF ConsistencyViolated(r)
            THEN /\ pc' = [pc EXCEPT ![r] = "sendThrew"]
                 /\ trace' = [trace EXCEPT ![r] = Append(@, "willSendResponse:throw")]
            ELSE /\ pc' = [pc EXCEPT ![r] = "sent"]
                 /\ trace' = [trace EXCEPT ![r] = Append(@, "willSendResponse:return")]
    /\ UNCHANGED <<options, store, requestContext, invokedHooks, sessionId,
                   extraCacheKeyData, result, storeOps>>

Next ==
    \E r \in Requests :
        \/ requestDidStart(r)
        \/ executeCall(r)
        \/ sessionIdReturn(r)
        \/ sessionIdThrow(r)
        \/ extraCacheKeyDataReturn(r)
        \/ extraCacheKeyDataThrow(r)
        \/ cacheGetReturn(r)
        \/ cacheGetThrow(r)
        \/ willSendResponse(r)

Spec == Init /\ [][Next]_vars

(***************************************************************************)
(* Vocabulary of the properties.                                           *)
(***************************************************************************)
Occurs(tr, e) == \E i \in 1..Len(tr) : tr[i] = e

\* The base cache key of a request whose hooks have run.
BaseOf(r) == MakeBaseCacheKey(requestContext[r], extraCacheKeyData[r])

\* The store key of the request in a session mode: "fqc:", then the digest of
\* {document, operationName, variables, extra, [sessionId], sessionMode}.
KeyOf(r, sessionMode) ==
    PrefixedKey(cacheKey(IF sessionMode = Private
                         THEN Spread(BaseOf(r), "sessionId", sessionId[r])
                         ELSE BaseOf(r),
                         sessionMode))

\* The keys the request has asked the store for.
Reads(r) == {storeOps[r][i].key : i \in {j \in 1..Len(storeOps[r]) : storeOps[r][j].op = "get"}}

Writes(r) == {storeOps[r][i].key : i \in {j \in 1..Len(storeOps[r]) : storeOps[r][j].op = "set"}}

Entry(key) == Hit(JSONparse(store[key]))

Returned(r) == Occurs(trace[r], "execute:return")

LookedUp(r) == storeOps[r] # << >>

(***************************************************************************)
(* C1: a request with a non-null sessionId reads the Private key first;    *)
(* when the store holds an entry there, execute returns that entry and the *)
(* request never reads the AuthenticatedPublic key, even when the store    *)
(* holds a public entry for the same base key.                             *)
(***************************************************************************)
C1_PrivateHitSkipsPublic ==
    \A r \in Requests :
        (sessionId[r] # JsNull /\ LookedUp(r)) =>
            /\ storeOps[r][1].op = "get"
            /\ storeOps[r][1].key = KeyOf(r, Private)
            /\ KeyOf(r, Private) \in DOMAIN store =>
                 /\ KeyOf(r, AuthenticatedPublic) \notin Reads(r)
                 /\ Len(storeOps[r]) = 1
                 /\ Returned(r) => result[r] = Entry(KeyOf(r, Private))

C1_Witness ==
    \E r \in Requests :
        /\ sessionId[r] # JsNull
        /\ Returned(r)
        /\ KeyOf(r, Private) \in DOMAIN store
        /\ KeyOf(r, AuthenticatedPublic) \in DOMAIN store
        /\ store[KeyOf(r, Private)] # store[KeyOf(r, AuthenticatedPublic)]
        /\ result[r] = Entry(KeyOf(r, Private))

(***************************************************************************)
(* C2: a request with a non-null sessionId, when the store holds no entry  *)
(* at the Private key, gets the entry at the AuthenticatedPublic key if    *)
(* there is one and a miss otherwise; it never reads the NoSession key.    *)
(***************************************************************************)
C2_FallbackToPublic ==
    \A r \in Requests :
        (sessionId[r] # JsNull /\ LookedUp(r)) =>
            /\ KeyOf(r, NoSession) \notin Reads(r)
            /\ \A i \in 1..Len(storeOps[r]) : storeOps[r][i].sessionMode # NoSession
            /\ (Returned(r) /\ KeyOf(r, Private) \notin DOMAIN store) =>
                 /\ Reads(r) = {KeyOf(r, Private), KeyOf(r, AuthenticatedPublic)}
                 /\ result[r] = IF KeyOf(r, AuthenticatedPublic) \in DOMAIN store
                                THEN Entry(KeyOf(r, AuthenticatedPublic))
                                ELSE Miss

C2_Witness ==
    \E r \in Requests :
        /\ sessionId[r] # JsNull
        /\ Returned(r)
        /\ KeyOf(r, Private) \notin DOMAIN store
        /\ KeyOf(r, AuthenticatedPublic) \in DOMAIN store
        /\ KeyOf(r, NoSession) \in DOMAIN store
        /\ store[KeyOf(r, NoSession)] # store[KeyOf(r, AuthenticatedPublic)]
        /\ result[r] = Entry(KeyOf(r, AuthenticatedPublic))

(***************************************************************************)
(* C3: a request whose sessionId is null (the hook is not configured, or   *)
(* returned null) issues exactly one store read, at the NoSession key, and *)
(* execute returns the entry there or a miss; it reads no Private and no   *)
(* AuthenticatedPublic key.                                                *)
(***************************************************************************)
C3_NoSessionSingleRead ==
    \A r \in Requests :
        /\ ~options.sessionId => sessionId[r] = JsNull
        /\ (sessionId[r] = JsNull /\ LookedUp(r)) =>
            /\ Len(storeOps[r]) = 1
            /\ storeOps[r][1].op = "get"
            /\ storeOps[r][1].sessionMode = NoSession
            /\ Reads(r) = {KeyOf(r, NoSession)}
            /\ Returned(r) =>
                 result[r] = IF KeyOf(r, NoSession) \in DOMAIN store
                             THEN Entry(KeyOf(r, NoSession))
                             ELSE Miss

C3_Witness ==
    \E r \in Requests :
        /\ ~options.sessionId
        /\ Returned(r)
        /\ KeyOf(r, NoSession) \in DOMAIN store
        /\ KeyOf(r, AuthenticatedPublic) \in DOMAIN store
        /\ store[KeyOf(r, NoSession)] # store[KeyOf(r, AuthenticatedPublic)]
        /\ result[r] = Entry(KeyOf(r, NoSession))

(***************************************************************************)
(* C4: every key computed with mode Private comes from a structure that    *)
(* embeds a non-null sessionId, and every key computed with mode           *)
(* AuthenticatedPublic or NoSession from a structure without a sessionId   *)
(* field, whatever the sessionId hook returned; the hashed text shows the  *)
(* same.                                                                   *)
(***************************************************************************)
TextEmbedsSessionId(key) ==
    \E i \in 1..(Len(key) - 3) :
        /\ key[i] = "sessionId"
        /\ key[i + 1] = "\""
        /\ key[i + 2] = ":"
        /\ key[i + 3] # "null"

C4_SessionIdOnlyInPrivateKeys ==
    \A r \in Requests :
        \A i \in 1..Len(storeOps[r]) :
            LET op == storeOps[r][i]
            IN  IF op.sessionMode = Private
                THEN /\ HasField(op.baseCacheKey, "sessionId")
                     /\ GetField(op.baseCacheKey, "sessionId") \notin {JsNull, JsUndefined}
                     /\ TextEmbedsSessionId(op.key)
                ELSE /\ ~HasField(op.baseCacheKey, "sessionId")
                     /\ ~TextEmbedsSessionId(op.key)

C4_Witness ==
    \E r, q \in Requests :
        /\ sessionId[r] = JsString("")
        /\ Len(storeOps[r]) = 2
        /\ storeOps[r][1].sessionMode = Private
        /\ storeOps[r][2].sessionMode = AuthenticatedPublic
        /\ sessionId[q] = JsNull
        /\ Len(storeOps[q]) = 1
        /\ storeOps[q][1].sessionMode = NoSession

(***************************************************************************)
(* C5: willSendResponse, called with a response that carries errors or     *)
(* lacks data, writes nothing to the store, whatever the session state and *)
(* the store's contents.                                                   *)
(***************************************************************************)
Sending(r) ==
    /\ pc[r] \in {"started", "executed", "executeRejected"}
    /\ pc'[r] \in {"sent", "sendThrew"}

Cacheable(resp) == resp.data /\ ~resp.errors

C5_NeverCachesErrors ==
    [][\A r \in Requests :
         (Sending(r) /\ ~Cacheable(response'[r])) =>
             /\ store' = store
             /\ storeOps' = storeOps
             /\ pc'[r] = "sent"]_vars

C5_Witness ==
    \E r, q \in Requests :
        /\ pc[r] = "sent" /\ response[r].errors /\ response[r].data
        /\ invokedHooks[r] /\ sessionId[r] # JsNull
        /\ pc[q] = "sent" /\ ~response[q].errors /\ ~response[q].data
        /\ DOMAIN store # {}

(***************************************************************************)
(* C6, as claimed: willSendResponse on a request whose invokedHooks flag   *)
(* is false raises the consistency error and writes nothing.               *)
(***************************************************************************)
C6_GuardAlwaysRaises ==
    \A r \in Requests :
        (pc[r] \in {"sent", "sendThrew"} /\ ~invokedHooks[r]) =>
            /\ pc[r] = "sendThrew"
            /\ Writes(r) = {}

(***************************************************************************)
(* C6, amended: willSendResponse on a request whose invokedHooks flag is   *)
(* false, called with a response that has data and no errors, raises the   *)
(* consistency error and writes nothing.                                   *)
(***************************************************************************)
C6_GuardRaisesOnCacheable ==
    /\ [](\A r \in Requests :
            (pc[r] \in {"sent", "sendThrew"} /\ ~invokedHooks[r]
                /\ Cacheable(response[r])) =>
                /\ pc[r] = "sendThrew"
                /\ Last(trace[r]) = "willSendResponse:throw"
                /\ Writes(r) = {})
    /\ [][\A r \in Requests :
            (Sending(r) /\ ~invokedHooks[r]) =>
                (store' = store /\ storeOps' = storeOps)]_vars

C6_Witness ==
    \E r, q \in Requests :
        /\ pc[r] = "sendThrew" /\ ~invokedHooks[r] /\ Cacheable(response[r])
        /\ trace[r] = <<"willSendResponse:throw">>
        /\ pc[q] = "sendThrew" /\ ~invokedHooks[q]
        /\ Occurs(trace[q], "extraCacheKeyData:throw")

(***************************************************************************)
(* C7: an anonymous request that missed on lookup and whose final response *)
(* has data and no errors, its hooks phase completed, has its response     *)
(* written by willSendResponse under the NoSession key the lookup read.    *)
(***************************************************************************)
C7_AnonymousMissIsWritten ==
    \A r \in Requests :
        (/\ pc[r] = "sent"
         /\ invokedHooks[r]
         /\ sessionId[r] = JsNull
         /\ Returned(r)
         /\ result[r] = Miss
         /\ Cacheable(response[r])) =>
            /\ KeyOf(r, NoSession) \in Writes(r)
            /\ KeyOf(r, NoSession) \in DOMAIN store

(***************************************************************************)
(* C8: when a classifier hook raises or rejects, execute rejects and the   *)
(* request issues no store read and no store write, then or afterwards.    *)
(***************************************************************************)
HookFailed(r) ==
    \/ Occurs(trace[r], "sessionId:throw")
    \/ Occurs(trace[r], "extraCacheKeyData:throw")

C8_HookFailurePropagates ==
    \A r \in Requests :
        HookFailed(r) =>
            /\ storeOps[r] = << >>
            /\ ~Returned(r)
            /\ ~Occurs(trace[r], "get:call")
            /\ pc[r] \in {"executeRejected", "sent", "sendThrew"}

C8_Witness ==
    \E r, q \in Requests :
        /\ Occurs(trace[r], "sessionId:throw")
        /\ pc[r] = "sent"
        /\ Occurs(trace[q], "extraCacheKeyData:throw")
        /\ sessionId[q] # JsNull
        /\ pc[q] = "sendThrew"
        /\ DOMAIN store # {}

(***************************************************************************)
(* C9: within a request the sessionId hook completes before the            *)
(* extraCacheKeyData hook begins, both complete before the first store     *)
(* read is issued, and the two hooks are never in flight together.         *)
(***************************************************************************)
Before(tr, a, b) ==
    \A j \in 1..Len(tr) : tr[j] = b => \E i \in 1..(j - 1) : tr[i] = a

SessionIdInFlight(r) ==
    /\ Occurs(trace[r], "sessionId:call")
    /\ ~Occurs(trace[r], "sessionId:return")
    /\ ~Occurs(trace[r], "sessionId:throw")

ExtraCacheKeyDataInFlight(r) ==
    /\ Occurs(trace[r], "extraCacheKeyData:call")
    /\ ~Occurs(trace[r], "extraCacheKeyData:return")
    /\ ~Occurs(trace[r], "extraCacheKeyData:throw")

C9_HooksInSequenceBeforeReads ==
    \A r \in Requests :
        /\ ~(SessionIdInFlight(r) /\ ExtraCacheKeyDataInFlight(r))
        /\ options.sessionId =>
             /\ Before(trace[r], "sessionId:return", "extraCacheKeyData:call")
             /\ Before(trace[r], "sessionId:return", "get:call")
        /\ options.extraCacheKeyData =>
             Before(trace[r], "extraCacheKeyData:return", "get:call")
        /\ LookedUp(r) => Occurs(trace[r], "get:call")

C9_Witness ==
    \E r \in Requests :
        /\ options.sessionId /\ options.extraCacheKeyData
        /\ Len(storeOps[r]) = 2
        /\ SubSeq(trace[r], 1, 5) =
             <<"sessionId:call", "sessionId:return", "extraCacheKeyData:call",
               "extraCacheKeyData:return", "get:call">>

(***************************************************************************)
(* C10: under any interleaving of requests that share the plugin and the   *)
(* store, a request's reads and its invokedHooks flag depend on its own    *)
(* hook results and inputs only: a Private key it reads embeds its own     *)
(* sessionId, its flag is set by its own execute only, and a step of one   *)
(* request leaves the session state of every other request as it was.      *)
(***************************************************************************)
C10_OwnState ==
    \A r \in Requests :
        /\ Reads(r) \subseteq {KeyOf(r, m) : m \in SessionMode}
        /\ \A i \in 1..Len(storeOps[r]) :
             storeOps[r][i].sessionMode = Private =>
                 GetField(storeOps[r][i].baseCacheKey, "sessionId") = sessionId[r]
        /\ invokedHooks[r] => LookedUp(r)
        /\ (pc[r] = "sent" /\ Cacheable(response[r])) => LookedUp(r)

C10_Frame ==
    \A q \in Requests :
        pc'[q] = pc[q] =>
            /\ invokedHooks'[q] = invokedHooks[q]
            /\ sessionId'[q] = sessionId[q]
            /\ extraCacheKeyData'[q] = extraCacheKeyData[q]
            /\ requestContext'[q] = requestContext[q]
            /\ storeOps'[q] = storeOps[q]
            /\ result'[q] = result[q]

C10_RequestsAreIsolated == []C10_OwnState /\ [][C10_Frame]_vars

C10_Witness ==
    \E r, q \in Requests :
        /\ r # q
        /\ invokedHooks[r] /\ pc[r] = "awaitPrivate"
        /\ sessionId[q] # JsNull /\ sessionId[q] # sessionId[r]
        /\ ~invokedHooks[q] /\ pc[q] = "sendThrew"

(***************************************************************************)
(* The key derivation: the inputs of two requests are drawn from wider     *)
(* sets.  Each request stands where execute awaits the extraCacheKeyData   *)
(* hook, its sessionId hook having returned, and runs the rest of execute  *)
(* against an empty store, so that it makes the reads of lines 144-155.    *)
(***************************************************************************)
KeyDocuments == {"{ a }", "{ b }"}

KeyOperationNames == {JsNull, JsString("Q")}

KeyVariableObjects ==
    { << >>,
      <<Field("x", JsString("1"))>>,
      <<Field("x", JsString("2"))>>,
      <<Field("x", JsString("1")), Field("y", JsString("2"))>>,
      <<Field("y", JsString("2")), Field("x", JsString("1"))>> }

KeyRequestContexts ==
    [document : KeyDocuments, operationName : KeyOperationNames,
     variables : KeyVariableObjects]

\* What the extraCacheKeyData hook may resolve to: it is typed `any`.
KeyExtraResults == ExtraResults \cup {JsUndefined}

InitKeys ==
    /\ options = [sessionId |-> TRUE, extraCacheKeyData |-> TRUE]
    /\ store = SeedStore({})
    /\ pc = [r \in Requests |-> "awaitExtraCacheKeyData"]
    /\ requestContext \in [Requests -> KeyRequestContexts]
    /\ invokedHooks = [r \in Requests |-> FALSE]
    /\ sessionId \in [Requests -> SessionIdResults]
    /\ extraCacheKeyData = [r \in Requests |-> JsNull]
    /\ result = [r \in Requests |-> Miss]
    /\ response = [r \in Requests |-> NoResponse]
    /\ trace = [r \in Requests |->
                 <<"sessionId:call", "sessionId:return", "extraCacheKeyData:call">>]
    /\ storeOps = [r \in Requests |-> << >>]

\* The extraCacheKeyData hook resolves to any of the wider results.
extraCacheKeyDataReturnAny(r) == extraCacheKeyDataResolve(r, KeyExtraResults)

NextKeys ==
    \E r \in Requests :
        \/ extraCacheKeyDataReturnAny(r)
        \/ cacheGetReturn(r)

SpecKeys == InitKeys /\ [][NextKeys]_vars

\* execute has returned: the request has made all its reads.
Keyed(r) == pc[r] = "executed"

\* The same variable names with the same values, in whatever order.
SameMapping(v, w) ==
    {<<v[i].name, v[i].value>> : i \in 1..Len(v)}
        = {<<w[i].name, w[i].value>> : i \in 1..Len(w)}

(***************************************************************************)
(* C11: two requests with structurally equal base cache keys (the same     *)
(* document, operationName and extra, the same variable name-to-value      *)
(* mapping) get the same cache key in each session mode, also when the     *)
(* variables were inserted in a different order.                           *)
(***************************************************************************)
C11_KeyIgnoresInsertionOrder ==
    \A r, q \in Requests :
        (/\ Keyed(r) /\ Keyed(q)
         /\ requestContext[r].document = requestContext[q].document
         /\ requestContext[r].operationName = requestContext[q].operationName
         /\ SameMapping(requestContext[r].variables, requestContext[q].variables)
         /\ extraCacheKeyData[r] = extraCacheKeyData[q]
         /\ sessionId[r] = sessionId[q]) =>
            \A i \in 1..Len(storeOps[r]) : storeOps[r][i].key = storeOps[q][i].key

(***************************************************************************)
(* C12: for one base cache key, the keys built in different session modes  *)
(* differ: the Private key of any sessionId from the AuthenticatedPublic   *)
(* and the NoSession key, and these two from each other (the digest taken  *)
(* as injective).                                                          *)
(***************************************************************************)
C12_PartitionsAreDisjoint ==
    \A r, q \in Requests :
        (Keyed(r) /\ Keyed(q) /\ BaseOf(r) = BaseOf(q)) =>
            \A i \in 1..Len(storeOps[r]) : \A j \in 1..Len(storeOps[q]) :
                storeOps[r][i].sessionMode # storeOps[q][j].sessionMode =>
                    storeOps[r][i].key # storeOps[q][j].key

C12_Witness ==
    \E r, q \in Requests :
        /\ Keyed(r) /\ Keyed(q) /\ BaseOf(r) = BaseOf(q)
        /\ sessionId[r] = JsString("u1") /\ sessionId[q] = JsNull
        /\ {storeOps[r][i].sessionMode : i \in 1..Len(storeOps[r])}
             \cup {storeOps[q][i].sessionMode : i \in 1..Len(storeOps[q])}
               = SessionMode
        /\ storeOps[r][1].key # storeOps[r][2].key
        /\ storeOps[r][1].key # storeOps[q][1].key
        /\ storeOps[r][2].key # storeOps[q][1].key

(***************************************************************************)
(* C20: two requests that differ in exactly one field of the base cache    *)
(* key (the document, the operationName, one variable value, or the        *)
(* extraCacheKeyData result) and are otherwise equal have different keys   *)
(* in every session mode (the digest taken as injective).                  *)
(***************************************************************************)
OneValueDiffers(v, w) ==
    /\ Len(v) = Len(w)
    /\ \A i \in 1..Len(v) : v[i].name = w[i].name
    /\ Cardinality({i \in 1..Len(v) : v[i].value # w[i].value}) = 1

DifferInOneField(r, q) ==
    LET c == requestContext[r]
        d == requestContext[q]
        documents == IF c.document # d.document THEN 1 ELSE 0
        names == IF c.operationName # d.operationName THEN 1 ELSE 0
        extras == IF extraCacheKeyData[r] # extraCacheKeyData[q] THEN 1 ELSE 0
    IN  \/ /\ c.variables = d.variables
           /\ documents + names + extras = 1
        \/ /\ OneValueDiffers(c.variables, d.variables)
           /\ documents + names + extras = 0

C20_KeyIsSensitiveToEachField ==
    \A r, q \in Requests :
        (/\ Keyed(r) /\ Keyed(q)
         /\ DifferInOneField(r, q)
         /\ sessionId[r] = sessionId[q]) =>
            \A i \in 1..Len(storeOps[r]) : storeOps[r][i].key # storeOps[q][i].key

C20_Witness ==
    \E r, q \in Requests :
        /\ Keyed(r) /\ Keyed(q)
        /\ sessionId[r] = sessionId[q] /\ sessionId[r] # JsNull
        /\ OneValueDiffers(requestContext[r].variables, requestContext[q].variables)
        /\ DifferInOneField(r, q)
        /\ Len(storeOps[r]) = 2 /\ Len(storeOps[q]) = 2
        /\ \A i \in 1..2 : storeOps[r][i].key # storeOps[q][i].key

(***************************************************************************)
(* C13: every key that reaches the wrapped store, on any call of any       *)
(* request, is the namespace prefix 'fqc:' followed by the digest.         *)
(***************************************************************************)
C13_KeysArePrefixed ==
    \A r \in Requests :
        \A i \in 1..Len(storeOps[r]) :
            LET key == storeOps[r][i].key
            IN  /\ Len(key) > 2
                /\ key[1] = "fqc:"
                /\ Tail(key) = cacheKey(storeOps[r][i].baseCacheKey,
                                        storeOps[r][i].sessionMode)
                /\ key[2] = "sha256"

C13_Witness ==
    \E r, q \in Requests :
        /\ Len(storeOps[r]) = 2 /\ Returned(r) /\ ~result[r].isNull
        /\ Len(storeOps[q]) = 1 /\ storeOps[q][1].sessionMode = NoSession

(***************************************************************************)
(* C14: a request whose sessionId is null (hook absent or returned null)   *)
(* never has a store write issued under a Private key, and its             *)
(* willSendResponse, the hooks having run, raises no error.                *)
(***************************************************************************)
C14_NoPrivateWriteWithoutSession ==
    \A r \in Requests :
        sessionId[r] = JsNull =>
            /\ \A i \in 1..Len(storeOps[r]) :
                 ~(storeOps[r][i].op = "set" /\ storeOps[r][i].sessionMode = Private)
            /\ Writes(r) = {}
            /\ (invokedHooks[r] /\ pc[r] \in {"sent", "sendThrew"}) => pc[r] = "sent"

C14_Witness ==
    \E r, q \in Requests :
        /\ ~options.sessionId
        /\ sessionId[r] = JsNull /\ invokedHooks[r]
        /\ pc[r] = "sent" /\ Cacheable(response[r])
        /\ Returned(r) /\ result[r] = Miss
        /\ pc[q] = "sent" /\ ~Cacheable(response[q])

(***************************************************************************)
(* C15: the lookup leaves the store as it was: no step of execute, whether *)
(* it ends in a private hit, a public hit, a NoSession hit, a miss or a    *)
(* failure, changes the store or issues a write.                           *)
(***************************************************************************)
InExecute(r) ==
    /\ pc[r] \in {"started", "awaitSessionId", "awaitExtraCacheKeyData",
                  "awaitNoSession", "awaitPrivate", "awaitAuthenticatedPublic"}
    /\ pc'[r] # pc[r]
    /\ pc'[r] \notin {"sent", "sendThrew"}

C15_LookupLeavesStoreUnchanged ==
    [][\A r \in Requests :
         InExecute(r) =>
             /\ store' = store
             /\ \A i \in 1..Len(storeOps'[r]) : storeOps'[r][i].op = "get"]_vars

C15_Witness ==
    \E r, q \in Requests :
        /\ Returned(r) /\ ~result[r].isNull /\ Len(storeOps[r]) = 2
        /\ pc[q] = "executeRejected" /\ HookFailed(q)
        /\ Cardinality(DOMAIN store) = 2

(***************************************************************************)
(* C16: willSendResponse called with a response that has errors or no data *)
(* on a request whose hooks never ran returns without raising and without  *)
(* writing; the consistency error is raised for responses with data and no *)
(* errors only.                                                            *)
(***************************************************************************)
C16_RejectionPrecedesGuard ==
    \A r \in Requests :
        /\ (pc[r] \in {"sent", "sendThrew"} /\ ~invokedHooks[r]
               /\ ~Cacheable(response[r])) =>
              /\ pc[r] = "sent"
              /\ Last(trace[r]) = "willSendResponse:return"
              /\ Writes(r) = {}
        /\ pc[r] = "sendThrew" => Cacheable(response[r])

C16_Witness ==
    \E r, q \in Requests :
        /\ pc[r] = "sent" /\ ~invokedHooks[r] /\ response[r].errors
        /\ trace[r] = <<"willSendResponse:return">>
        /\ pc[q] = "sent" /\ ~invokedHooks[q] /\ ~response[q].data
        /\ ~response[q].errors

(***************************************************************************)
(* C17, as claimed: when a store read fails the lookup treats it as a miss *)
(* and the request goes on to execute.                                     *)
(***************************************************************************)
ReadFailed(r) == Occurs(trace[r], "get:throw")

C17_ReadFailureIsAMiss ==
    \A r \in Requests :
        ReadFailed(r) => (Returned(r) /\ result[r] = Miss)

(***************************************************************************)
(* C17, amended: when a store read fails, cacheGet and execute reject with *)
(* that failure: execute returns no result, miss or hit, and issues no     *)
(* further read.                                                           *)
(***************************************************************************)
C17_ReadFailureRejectsExecute ==
    \A r \in Requests :
        ReadFailed(r) =>
            /\ ~Returned(r)
            /\ pc[r] \in {"executeRejected", "sent", "sendThrew"}
            /\ \A i \in 1..Len(trace[r]) :
                 trace[r][i] = "get:throw" =>
                     \A j \in (i + 1)..Len(trace[r]) :
                         trace[r][j] \in {"willSendResponse:return",
                                          "willSendResponse:throw"}

C17_Witness ==
    \E r \in Requests :
        /\ ReadFailed(r)
        /\ pc[r] = "executeRejected"
        /\ Len(storeOps[r]) = 1 /\ storeOps[r][1].sessionMode = Private
        /\ KeyOf(r, AuthenticatedPublic) \in DOMAIN store

(***************************************************************************)
(* C18: each classifier hook is called at most once per request: not at    *)
(* all when it is not configured, exactly once when it is configured and   *)
(* execute reached it; willSendResponse calls no hook and leaves the saved *)
(* results as they are.                                                    *)
(***************************************************************************)
CountOf(tr, e) == Cardinality({i \in 1..Len(tr) : tr[i] = e})

ExecuteCalled(r) ==
    \/ pc[r] \in {"awaitSessionId", "awaitExtraCacheKeyData", "awaitNoSession",
                  "awaitPrivate", "awaitAuthenticatedPublic", "executed",
                  "executeRejected"}
    \/ pc[r] \in {"sent", "sendThrew"} /\ Len(trace[r]) > 1

C18_HookCounts ==
    \A r \in Requests :
        /\ CountOf(trace[r], "sessionId:call") =
             IF options.sessionId /\ ExecuteCalled(r) THEN 1 ELSE 0
        /\ CountOf(trace[r], "extraCacheKeyData:call") =
             IF /\ options.extraCacheKeyData
                /\ ExecuteCalled(r)
                /\ options.sessionId => Occurs(trace[r], "sessionId:return")
             THEN 1 ELSE 0

C18_SendCallsNoHook ==
    \A r \in Requests :
        Sending(r) =>
            /\ \E e \in {"willSendResponse:return", "willSendResponse:throw"} :
                 trace'[r] = Append(trace[r], e)
            /\ sessionId'[r] = sessionId[r]
            /\ extraCacheKeyData'[r] = extraCacheKeyData[r]

C18_HooksRunAtMostOnce == []C18_HookCounts /\ [][C18_SendCallsNoHook]_vars

C18_Witness ==
    \E r, q \in Requests :
        /\ options.sessionId /\ options.extraCacheKeyData
        /\ pc[r] = "sent" /\ Returned(r)
        /\ CountOf(trace[r], "sessionId:call") = 1
        /\ CountOf(trace[r], "extraCacheKeyData:call") = 1
        /\ pc[q] = "sent" /\ Len(trace[q]) = 1

(***************************************************************************)
(* C19: invokedHooks is false when the request starts, becomes true only   *)
(* after every configured hook has returned, and never goes back to false; *)
(* when the sessionId hook returned and the extraCacheKeyData hook failed  *)
(* it is still false, and a later willSendResponse with a response that    *)
(* has data and no errors raises the consistency error and writes nothing. *)
(***************************************************************************)
C19_FlagFollowsHooks ==
    \A r \in Requests :
        /\ pc[r] \in {"idle", "started"} => ~invokedHooks[r]
        /\ invokedHooks[r] =>
             /\ options.sessionId => Occurs(trace[r], "sessionId:return")
             /\ options.extraCacheKeyData =>
                  Occurs(trace[r], "extraCacheKeyData:return")
        /\ Occurs(trace[r], "extraCacheKeyData:throw") =>
             /\ ~invokedHooks[r]
             /\ (pc[r] \in {"sent", "sendThrew"} /\ Cacheable(response[r])) =>
                  /\ pc[r] = "sendThrew"
                  /\ Writes(r) = {}

C19_FlagStaysSet ==
    \A r \in Requests : invokedHooks[r] => invokedHooks'[r]

C19_FlagIsMonotonic == []C19_FlagFollowsHooks /\ [][C19_FlagStaysSet]_vars

C19_Witness ==
    \E r, q \in Requests :
        /\ Occurs(trace[r], "sessionId:return") /\ sessionId[r] # JsNull
        /\ Occurs(trace[r], "extraCacheKeyData:throw")
        /\ pc[r] = "sendThrew" /\ Cacheable(response[r])
        /\ invokedHooks[q] /\ pc[q] = "sent" /\ Cacheable(response[q])

====
